---------------------------- MODULE Spec2Model ----------------------------
(***************************************************************************)
(* CoPHE: hierarchical evaluation of multi-label predictions.              *)
(*                                                                         *)
(*   scripts/evaluation_setup.py   setup_matrices_by_layer,                *)
(*                                 low_level_diagonal,                     *)
(*                                 hierarchical_eval_setup                 *)
(*   scripts/multi_level_eval.py   tp/fp/fn_matrix_mul, report,            *)
(*                                 report_micro, report_macro, *_bin       *)
(*                                                                         *)
(* Three specifications share the variables of this module:                *)
(*   SpecSetup    one call of setup_matrices_by_layer, a loop iteration    *)
(*                (one layer) per step;                                    *)
(*   SpecProject  one call of hierarchical_eval_setup;                     *)
(*   SpecEval     the calls of the reports on one (pred, gold) pair.       *)
(*                                                                         *)
(* Encoding.  A code is an opaque string in the program; here a code is a  *)
(* number of Codes, a set disjoint from every index 0..N-1, so that a code *)
(* and an index are never equal (as a str and an int never are).  Python   *)
(* lists are sequences (list[k] is seq[k+1]); a matrix is a function       *)
(* [0..R-1 -> [0..C-1 -> Int]] with its shape beside it.  A float is an    *)
(* exact fraction [num, den]; den = 0 stands for the inf/nan a division by *)
(* zero produces.                                                          *)
(***************************************************************************)
EXTENDS Integers, Sequences, FiniteSets

VARIABLES
    pc,                  \* position of the call being modelled
    \* ---- setup_matrices_by_layer
    code_ids,            \* argument: leaf code -> row index
    translation_dict,    \* argument: code -> [parents |-> list of ancestors]
    max_layer,           \* argument
    include_duplicates,  \* argument
    layer,               \* loop variable of `for layer in range(max_layer)`
    matrices,            \* list of transition matrices built so far
    layer_id_dicts,      \* list of id dictionaries built so far
    \* ---- hierarchical_eval_setup
    preds, golds,        \* arguments: documents x leaves count matrices
    layer_matrices,      \* argument: list of csr matrices
    max_onto_layers,     \* argument
    combined,            \* result: [raised, preds, golds]
    \* ---- multi_level_eval
    pred, gold,          \* arguments: documents x classes count matrices
    code_id_dict,        \* argument of report: class id -> code
    counts,              \* tp/fp/fn per class and over all axes
    rep,                 \* result of report
    micro, macro,        \* results of report_micro, report_macro
    rep_bin,             \* result of report_bin
    micro_bin, macro_bin \* results of report_micro_bin, report_macro_bin

setupVars == <<code_ids, translation_dict, max_layer, include_duplicates,
               layer, matrices, layer_id_dicts>>
projectVars == <<preds, golds, layer_matrices, max_onto_layers, combined>>
evalVars == <<pred, gold, code_id_dict, counts, rep, micro, macro,
              rep_bin, micro_bin, macro_bin>>
vars == <<pc, setupVars, projectVars, evalVars>>

----------------------------------------------------------------------------
(* Bounds *)

\* largest max_layer (and longest parents list) explored
MaxLayer == 2
\* largest entry of a count matrix
MaxCount == 2

\* the codes of the ontology (opaque labels; see Encoding)
Codes == {101, 102}

----------------------------------------------------------------------------
(* Helpers: sums, matrices *)

RECURSIVE SumOver(_, _)
\* sum of f[x] over the finite set S
SumOver(f, S) ==
    IF S = {} THEN 0
    ELSE LET x == CHOOSE y \in S : TRUE IN f[x] + SumOver(f, S \ {x})

Min(a, b) == IF a <= b THEN a ELSE b
Max(a, b) == IF a >= b THEN a ELSE b

\* the one-to-one maps of S onto 0..|S|-1
Bijections(S) ==
    {f \in [S -> 0 .. (Cardinality(S) - 1)] :
        \A x, y \in S : f[x] = f[y] => x = y}

\* a result not computed yet
Unset == [raised |-> "unset"]

----------------------------------------------------------------------------
(* scripts/evaluation_setup.py : setup_matrices_by_layer *)

\* translation_dict[code]["parents"][l] raises KeyError (code missing) or
\* IndexError (list too short); both are LookupErrors
LookupFails(td, code, l) ==
    IF code \notin DOMAIN td THEN TRUE ELSE l >= Len(td[code].parents)

\* translation_dict[code]["parents"][l]
ParentAt(td, code, l) == td[code].parents[l + 1]

\* lines 20-22: the set of the leaves' ancestors in the layer
LayerCodeset(ids, td, l) == {ParentAt(td, code, l) : code \in DOMAIN ids}

\* mutant: the two-hop comparison inverted
EntryValue_Inverted(td, code, l, maxl, dup) ==
    IF dup \/ l = maxl - 2
    THEN 1
    ELSE IF ParentAt(td, ParentAt(td, code, l), l) = code THEN 1 ELSE 0

\* mutant: no exemption of the layer max_layer-2
EntryValue_NoExemption(td, code, l, maxl, dup) ==
    IF dup THEN 1
    ELSE IF LookupFails(td, ParentAt(td, code, l), l) THEN 1
    ELSE IF ParentAt(td, ParentAt(td, code, l), l) = code THEN 0 ELSE 1

\* lines 31-36: the value appended to vals for a leaf; line 36 appends the
\* bool not(duplicate_ancestor*1), which the matrix holds as True = 1, False = 0
EntryValue(td, code, l, maxl, dup) ==
    IF dup \/ l = maxl - 2
    THEN 1
    ELSE LET ancestor == ParentAt(td, code, l)
             double_ancestor == ParentAt(td, ancestor, l)
         IN IF double_ancestor = code THEN 0 ELSE 1

\* a lookup of the layer's two loops fails
LayerRaises(ids, td, l, maxl, dup) ==
    IF \E code \in DOMAIN ids : LookupFails(td, code, l)
    THEN TRUE
    ELSE IF dup \/ l = maxl - 2
         THEN FALSE
         ELSE \E code \in DOMAIN ids : LookupFails(td, ParentAt(td, code, l), l)

\* lines 24-25: dict(zip(list(layer_codeset), range(len(layer_codeset)))),
\* a set being enumerated in an order the program does not control
LayerIdDicts(codeset) == Bijections(codeset)

\* mutant: shape=(len(rows), len(cols)), the columns not deduplicated
LayerMatrix_ColsNotDeduplicated(ids, td, l, maxl, dup, layer_id_dict) ==
    LET leaves == DOMAIN ids
        nrows == Cardinality(leaves)
        vals == [c \in leaves |-> EntryValue(td, c, l, maxl, dup)]
    IN [shape |-> <<nrows, nrows>>,
        data  |-> [i \in 0 .. (nrows - 1) |-> [j \in 0 .. (nrows - 1) |->
                     SumOver(vals, {c \in leaves :
                                ids[c] = i /\ layer_id_dict[ParentAt(td, c, l)] = j})]]]

\* lines 27-38: csr_matrix((vals, (rows, cols)), shape=(len(rows),
\* len(set(cols)))); entries given twice for a cell are added
LayerMatrix(ids, td, l, maxl, dup, layer_id_dict) ==
    LET leaves == DOMAIN ids
        nrows == Cardinality(leaves)
        ncols == Cardinality({layer_id_dict[ParentAt(td, c, l)] : c \in leaves})
        vals == [c \in leaves |-> EntryValue(td, c, l, maxl, dup)]
    IN [shape |-> <<nrows, ncols>>,
        data  |-> [i \in 0 .. (nrows - 1) |-> [j \in 0 .. (ncols - 1) |->
                     SumOver(vals, {c \in leaves :
                                ids[c] = i /\ layer_id_dict[ParentAt(td, c, l)] = j})]]]

\* the arguments explored
CodeIdMaps == UNION {Bijections(L) : L \in (SUBSET Codes) \ {{}}}
ParentLists == UNION {[1 .. n -> Codes] : n \in 0 .. MaxLayer}
TranslationDicts ==
    UNION {[D -> [parents : ParentLists]] : D \in SUBSET Codes}

InitSetup ==
    /\ pc = "loop"
    /\ code_ids \in CodeIdMaps
    /\ translation_dict \in TranslationDicts
    /\ max_layer \in 0 .. MaxLayer
    /\ include_duplicates \in BOOLEAN
    /\ layer = 0
    /\ matrices = <<>>
    /\ layer_id_dicts = <<>>
    \* the variables of the other calls stay idle
    /\ preds = <<>> /\ golds = <<>> /\ layer_matrices = <<>>
    /\ max_onto_layers = 0 /\ combined = Unset
    /\ pred = <<>> /\ gold = <<>> /\ code_id_dict = <<>> /\ counts = Unset
    /\ rep = Unset /\ micro = Unset /\ macro = Unset
    /\ rep_bin = Unset /\ micro_bin = Unset /\ macro_bin = Unset

\* one iteration of the loop of line 18
BuildLayer ==
    /\ pc = "loop"
    /\ layer < max_layer
    /\ ~LayerRaises(code_ids, translation_dict, layer, max_layer, include_duplicates)
    /\ \E layer_id_dict \in
            LayerIdDicts(LayerCodeset(code_ids, translation_dict, layer)) :
          /\ matrices' = Append(matrices,
                 LayerMatrix(code_ids, translation_dict, layer, max_layer,
                             include_duplicates, layer_id_dict))
          /\ layer_id_dicts' = Append(layer_id_dicts, layer_id_dict)
    /\ layer' = layer + 1
    /\ UNCHANGED <<pc, code_ids, translation_dict, max_layer, include_duplicates>>
    /\ UNCHANGED <<projectVars, evalVars>>

\* an iteration that raises a LookupError (lines 22, 29, 34)
BuildLayerRaises ==
    /\ pc = "loop"
    /\ layer < max_layer
    /\ LayerRaises(code_ids, translation_dict, layer, max_layer, include_duplicates)
    /\ pc' = "raised"
    /\ UNCHANGED <<setupVars, projectVars, evalVars>>

\* line 42
ReturnSetup ==
    /\ pc = "loop"
    /\ layer = max_layer
    /\ pc' = "returned"
    /\ UNCHANGED <<setupVars, projectVars, evalVars>>

NextSetup == BuildLayer \/ BuildLayerRaises \/ ReturnSetup

----------------------------------------------------------------------------
(* scripts/evaluation_setup.py : low_level_diagonal, hierarchical_eval_setup *)

\* np.sum(matrix, axis = 1) of a scipy csr_matrix: numpy hands the call to
\* csr_matrix.sum, which returns a 2-D np.matrix of shape (rows, 1)
SumAxis1(m) ==
    [shape |-> <<m.shape[1], 1>>,
     data  |-> [i \in 0 .. (m.shape[1] - 1) |-> [j \in 0 .. 0 |->
                  SumOver(m.data[i], 0 .. (m.shape[2] - 1))]]]

\* np.diag(v): of a 1-D array the square matrix with v on its diagonal, of a
\* 2-D array (here the (rows, 1) row sums) the 1-D array of its main diagonal
NpDiag2D(m) ==
    [k \in 1 .. Min(m.shape[1], m.shape[2]) |-> m.data[k - 1][k - 1]]

\* lines 44-49
low_level_diagonal(matrix) == NpDiag2D(SumAxis1(matrix))

\* ndarray * 1-D ndarray: element by element, the vector broadcast over the
\* rows; a vector of length 1 is broadcast over the columns too
BroadcastMul(a, v) ==
    [shape |-> a.shape,
     data  |-> [i \in 0 .. (a.shape[1] - 1) |-> [j \in 0 .. (a.shape[2] - 1) |->
                  a.data[i][j] * (IF Len(v) = 1 THEN v[1] ELSE v[j + 1])]]]

\* ndarray * csr_matrix: scipy's __rmul__, the matrix product
MatMul(a, b) ==
    [shape |-> <<a.shape[1], b.shape[2]>>,
     data  |-> [i \in 0 .. (a.shape[1] - 1) |-> [j \in 0 .. (b.shape[2] - 1) |->
                  SumOver([k \in 0 .. (a.shape[2] - 1) |-> a.data[i][k] * b.data[k][j]],
                          0 .. (a.shape[2] - 1))]]]

\* np.concatenate([a, b], 1)
Concat1(a, b) ==
    [shape |-> <<a.shape[1], a.shape[2] + b.shape[2]>>,
     data  |-> [i \in 0 .. (a.shape[1] - 1) |->
                  [j \in 0 .. (a.shape[2] + b.shape[2] - 1) |->
                     IF j < a.shape[2] THEN a.data[i][j]
                     ELSE b.data[i][j - a.shape[2]]]]]

RECURSIVE ConcatAll(_)
\* np.concatenate(list, 1) of a non-empty list
ConcatAll(list) ==
    IF Len(list) = 1 THEN list[1]
    ELSE Concat1(ConcatAll(SubSeq(list, 1, Len(list) - 1)), list[Len(list)])

\* lines 61-76 for one of the two sides (preds and golds are treated alike)
CombinedSide(m, lms, n) ==
    LET lowest_layer_filter == low_level_diagonal(lms[1])
        translated == [i \in 1 .. n |-> MatMul(m, lms[i])]
    IN ConcatAll(<<BroadcastMul(m, lowest_layer_filter)>> \o translated)

\* layer_matrices[0] or layer_matrices[i] raises IndexError
EvalSetupRaises(lms, n) == IF Len(lms) = 0 THEN TRUE ELSE n > Len(lms)

\* the csr matrices setup_matrices_by_layer builds for nleaves leaves: one
\* stored entry, 0 or 1, per row, and no column without a stored entry
BuiltMatrices(nleaves) ==
    {[shape |-> <<nleaves, Cardinality({col[i] : i \in DOMAIN col})>>,
      data  |-> [i \in 0 .. (nleaves - 1) |->
                   [j \in 0 .. (Cardinality({col[r] : r \in DOMAIN col}) - 1) |->
                      IF col[i] = j THEN val[i] ELSE 0]]] :
        col \in {c \in [0 .. (nleaves - 1) -> 0 .. (nleaves - 1)] :
                    \E n \in 1 .. nleaves : {c[i] : i \in DOMAIN c} = 0 .. (n - 1)},
        val \in [0 .. (nleaves - 1) -> 0 .. 1]}

\* 0/1 label matrices, documents x leaves
LabelMatrices(ndocs, nleaves) ==
    {[shape |-> <<ndocs, nleaves>>, data |-> d] :
        d \in [0 .. (ndocs - 1) -> [0 .. (nleaves - 1) -> 0 .. 1]]}

\* the numbers of documents explored
DocCounts == {1, 2}

\* lists of 1 .. MaxLayer matrices
MatrixLists(nleaves) ==
    UNION {[1 .. n -> BuiltMatrices(nleaves)] : n \in 1 .. MaxLayer}

InitProject ==
    /\ pc = "call"
    /\ \E nleaves \in 1 .. Cardinality(Codes), ndocs \in DocCounts :
          /\ layer_matrices \in MatrixLists(nleaves)
          /\ preds \in LabelMatrices(ndocs, nleaves)
          /\ golds \in LabelMatrices(ndocs, nleaves)
    /\ max_onto_layers \in 0 .. (MaxLayer + 1)
    /\ combined = Unset
    \* the variables of the other calls stay idle
    /\ code_ids = <<>> /\ translation_dict = <<>> /\ max_layer = 0
    /\ include_duplicates = TRUE /\ layer = 0
    /\ matrices = <<>> /\ layer_id_dicts = <<>>
    /\ pred = <<>> /\ gold = <<>> /\ code_id_dict = <<>> /\ counts = Unset
    /\ rep = Unset /\ micro = Unset /\ macro = Unset
    /\ rep_bin = Unset /\ micro_bin = Unset /\ macro_bin = Unset

\* lines 51-76
HierarchicalEvalSetup ==
    /\ pc = "call"
    /\ ~EvalSetupRaises(layer_matrices, max_onto_layers)
    /\ combined' = [raised |-> "none",
                    preds |-> CombinedSide(preds, layer_matrices, max_onto_layers),
                    golds |-> CombinedSide(golds, layer_matrices, max_onto_layers)]
    /\ pc' = "returned"
    /\ UNCHANGED <<preds, golds, layer_matrices, max_onto_layers>>
    /\ UNCHANGED <<setupVars, evalVars>>

\* line 67 raises IndexError: fewer matrices than max_onto_layers
HierarchicalEvalSetupRaises ==
    /\ pc = "call"
    /\ EvalSetupRaises(layer_matrices, max_onto_layers)
    /\ combined' = [raised |-> "IndexError"]
    /\ pc' = "raised"
    /\ UNCHANGED <<preds, golds, layer_matrices, max_onto_layers>>
    /\ UNCHANGED <<setupVars, evalVars>>

NextProject == HierarchicalEvalSetup \/ HierarchicalEvalSetupRaises

----------------------------------------------------------------------------
(* Floats as exact fractions *)

RECURSIVE GCD(_, _)
GCD(a, b) == IF b = 0 THEN a ELSE GCD(b, a % b)

\* n / d in lowest terms; x / 0 is inf (num 1) or nan (num 0), as numpy's
\* division gives them (with a warning, not an exception)
Frac(n, d) ==
    IF d = 0 THEN [num |-> IF n = 0 THEN 0 ELSE 1, den |-> 0]
    ELSE [num |-> n \div GCD(n, d), den |-> d \div GCD(n, d)]

FromInt(n) == [num |-> n, den |-> 1]
IsFinite(x) == x.den # 0
IsZero(x) == x.den # 0 /\ x.num = 0
FAdd(x, y) == Frac(x.num * y.den + y.num * x.den, x.den * y.den)
FMul(x, y) == Frac(x.num * y.num, x.den * y.den)
FDiv(x, y) == Frac(x.num * y.den, x.den * y.num)

RECURSIVE FSum(_, _)
\* sum of the fractions f[x], x in S
FSum(f, S) ==
    IF S = {} THEN FromInt(0)
    ELSE LET x == CHOOSE y \in S : TRUE IN FAdd(f[x], FSum(f, S \ {x}))

----------------------------------------------------------------------------
(* scripts/multi_level_eval.py *)

Rows(m) == 0 .. (m.shape[1] - 1)
Cols(m) == 0 .. (m.shape[2] - 1)

\* np.sum(m, axis = axes): axes 0 gives the vector of the column sums, axes
\* (0, 1) the sum of all cells
NpSum(m, axes) ==
    LET colsum == [j \in Cols(m) |-> SumOver([i \in Rows(m) |-> m.data[i][j]], Rows(m))]
    IN IF axes = <<0>> THEN colsum ELSE SumOver(colsum, Cols(m))

\* np.minimum(a, b)
NpMinimum(a, b) ==
    [shape |-> a.shape,
     data  |-> [i \in Rows(a) |-> [j \in Cols(a) |-> Min(a.data[i][j], b.data[i][j])]]]

\* np.maximum(a - b, 0)
NpMaximumDiff0(a, b) ==
    [shape |-> a.shape,
     data  |-> [i \in Rows(a) |-> [j \in Cols(a) |-> Max(a.data[i][j] - b.data[i][j], 0)]]]

\* np.maximum(a, b)
NpMaximum(a, b) ==
    [shape |-> a.shape,
     data  |-> [i \in Rows(a) |-> [j \in Cols(a) |-> Max(a.data[i][j], b.data[i][j])]]]

\* mutant: np.maximum in the place of np.minimum
tp_matrix_mul_Maximum(p, g, axes) == NpSum(NpMaximum(p, g), axes)

\* mutant: pred - gold as in fp_matrix_mul, the arguments not swapped
fn_matrix_mul_NotSwapped(p, g, axes) == NpSum(NpMaximumDiff0(p, g), axes)

\* lines 8-18
tp_matrix_mul(p, g, axes) == NpSum(NpMinimum(p, g), axes)
\* lines 20-30
fp_matrix_mul(p, g, axes) == NpSum(NpMaximumDiff0(p, g), axes)
\* lines 32-42
fn_matrix_mul(p, g, axes) == NpSum(NpMaximumDiff0(g, p), axes)

\* lines 45-64
tp_matrix_mul_full(p, g) == tp_matrix_mul(p, g, <<0, 1>>)
fp_matrix_mul_full(p, g) == fp_matrix_mul(p, g, <<0, 1>>)
fn_matrix_mul_full(p, g) == fn_matrix_mul(p, g, <<0, 1>>)
\* lines 67-86
tp_matrix_mul_per_class(p, g) == tp_matrix_mul(p, g, <<0>>)
fp_matrix_mul_per_class(p, g) == fp_matrix_mul(p, g, <<0>>)
fn_matrix_mul_per_class(p, g) == fn_matrix_mul(p, g, <<0>>)

\* mutant: the denominator left as it is
DenomCorrected_NoGuard(denom) == denom

\* denom + (denom == 0)*1 on integers (lines 110, 115, 146, 150, 176, 181)
DenomCorrected(denom) == denom + (IF denom = 0 THEN 1 ELSE 0)

\* f1_denom + ((f1_denom == 0)*1) on floats (lines 120, 154, 186)
F1DenomCorrected(f1_denom) ==
    FAdd(f1_denom, FromInt(IF IsZero(f1_denom) THEN 1 ELSE 0))

\* tp / (tp + other) with the corrected denominator (lines 109-111, 114-116)
Ratio(tp, other) == Frac(tp, DenomCorrected(tp + other))

\* 2*(prec*rec)/(f1_denom_corrected) (lines 119-121, 153-155, 185-187)
F1Of(prec, rec) ==
    FDiv(FMul(FromInt(2), FMul(prec, rec)), F1DenomCorrected(FAdd(prec, rec)))

RECURSIVE SortedSeq(_)
\* sorted(S): the elements of a set of integers in ascending order
SortedSeq(S) ==
    IF S = {} THEN <<>>
    ELSE LET lo == CHOOSE x \in S : \A y \in S : x <= y
         IN <<lo>> \o SortedSeq(S \ {lo})

\* lines 88-129: the rows of the dataframe; zip stops at its shortest list
report(p, g, cid) ==
    LET tp == tp_matrix_mul_per_class(p, g)
        fp == fp_matrix_mul_per_class(p, g)
        fn == fn_matrix_mul_per_class(p, g)
        support == NpSum(g, <<0>>)
        prec == [j \in Cols(p) |-> Ratio(tp[j], fp[j])]
        rec == [j \in Cols(p) |-> Ratio(tp[j], fn[j])]
        f1 == [j \in Cols(p) |-> F1Of(prec[j], rec[j])]
        keys == SortedSeq(DOMAIN cid)
        codes == [k \in 1 .. Len(keys) |-> cid[keys[k]]]
    IN [k \in 1 .. Min(p.shape[2], Len(codes)) |->
          [Precision |-> prec[k - 1], Recall |-> rec[k - 1], F1 |-> f1[k - 1],
           Support |-> support[k - 1], Code |-> codes[k]]]

\* lines 131-159
report_micro(p, g) ==
    LET tp == tp_matrix_mul_full(p, g)
        fp == fp_matrix_mul_full(p, g)
        fn == fn_matrix_mul_full(p, g)
        prec_micro == Ratio(tp, fp)
        rec_micro == Ratio(tp, fn)
    IN [Precision |-> prec_micro, Recall |-> rec_micro,
        F1 |-> F1Of(prec_micro, rec_micro)]

\* np.average(v, axis = 0) of a vector of floats
NpAverage(v) == FDiv(FSum(v, DOMAIN v), FromInt(Cardinality(DOMAIN v)))

\* mutant: F1 as the average of the per-class F1 scores
report_macro_MeanF1(p, g) ==
    LET tp == tp_matrix_mul_per_class(p, g)
        fp == fp_matrix_mul_per_class(p, g)
        fn == fn_matrix_mul_per_class(p, g)
        prec == [j \in Cols(p) |-> Ratio(tp[j], fp[j])]
        rec == [j \in Cols(p) |-> Ratio(tp[j], fn[j])]
    IN [Precision |-> NpAverage(prec), Recall |-> NpAverage(rec),
        F1 |-> NpAverage([j \in Cols(p) |-> F1Of(prec[j], rec[j])])]

\* lines 161-190
report_macro(p, g) ==
    LET tp == tp_matrix_mul_per_class(p, g)
        fp == fp_matrix_mul_per_class(p, g)
        fn == fn_matrix_mul_per_class(p, g)
        prec_macro == NpAverage([j \in Cols(p) |-> Ratio(tp[j], fp[j])])
        rec_macro == NpAverage([j \in Cols(p) |-> Ratio(tp[j], fn[j])])
    IN [Precision |-> prec_macro, Recall |-> rec_macro,
        F1 |-> F1Of(prec_macro, rec_macro)]

\* (m > 0)*1
Binarise(m) ==
    [shape |-> m.shape,
     data  |-> [i \in Rows(m) |-> [j \in Cols(m) |-> IF m.data[i][j] > 0 THEN 1 ELSE 0]]]

\* lines 192-199
report_macro_bin(p, g) ==
    [raised |-> "none", value |-> report_macro(Binarise(p), Binarise(g))]

\* lines 201-208
report_micro_bin(p, g) ==
    [raised |-> "none", value |-> report_micro(Binarise(p), Binarise(g))]

\* lines 210-216: report(pred_bin, gold_bin) is called with two arguments,
\* and report takes three (line 88): the call raises TypeError
report_bin(p, g) == [raised |-> "TypeError"]

\* the shapes (documents, classes) explored
Shapes == {<<2, 2>>, <<1, 3>>, <<3, 1>>}

\* count matrices of a shape
CountMatrices(shape) ==
    {[shape |-> shape, data |-> d] :
        d \in [0 .. (shape[1] - 1) -> [0 .. (shape[2] - 1) -> 0 .. MaxCount]]}

InitEval ==
    /\ pc = "counts"
    /\ \E shape \in Shapes :
          /\ pred \in CountMatrices(shape)
          /\ gold \in CountMatrices(shape)
          /\ code_id_dict = [k \in 0 .. (shape[2] - 1) |-> 101 + k]
    /\ counts = Unset
    /\ rep = Unset
    /\ micro = Unset
    /\ macro = Unset
    /\ rep_bin = Unset
    /\ micro_bin = Unset
    /\ macro_bin = Unset
    \* the variables of the other calls stay idle
    /\ code_ids = <<>> /\ translation_dict = <<>> /\ max_layer = 0
    /\ include_duplicates = TRUE /\ layer = 0
    /\ matrices = <<>> /\ layer_id_dicts = <<>>
    /\ preds = <<>> /\ golds = <<>> /\ layer_matrices = <<>>
    /\ max_onto_layers = 0 /\ combined = Unset

\* lines 245-247, and the counts over all axes
Counts ==
    /\ pc = "counts"
    /\ counts' = [raised |-> "none",
                  tp |-> tp_matrix_mul_per_class(pred, gold),
                  fp |-> fp_matrix_mul_per_class(pred, gold),
                  fn |-> fn_matrix_mul_per_class(pred, gold),
                  tp_full |-> tp_matrix_mul_full(pred, gold),
                  fp_full |-> fp_matrix_mul_full(pred, gold),
                  fn_full |-> fn_matrix_mul_full(pred, gold)]
    /\ pc' = "report"
    /\ UNCHANGED <<pred, gold, code_id_dict, rep, micro, macro,
                   rep_bin, micro_bin, macro_bin>>
    /\ UNCHANGED <<setupVars, projectVars>>

Report ==
    /\ pc = "report"
    /\ rep' = [raised |-> "none", value |-> report(pred, gold, code_id_dict)]
    /\ pc' = "report_micro"
    /\ UNCHANGED <<pred, gold, code_id_dict, counts, micro, macro,
                   rep_bin, micro_bin, macro_bin>>
    /\ UNCHANGED <<setupVars, projectVars>>

ReportMicro ==
    /\ pc = "report_micro"
    /\ micro' = [raised |-> "none", value |-> report_micro(pred, gold)]
    /\ pc' = "report_macro"
    /\ UNCHANGED <<pred, gold, code_id_dict, counts, rep, macro,
                   rep_bin, micro_bin, macro_bin>>
    /\ UNCHANGED <<setupVars, projectVars>>

ReportMacro ==
    /\ pc = "report_macro"
    /\ macro' = [raised |-> "none", value |-> report_macro(pred, gold)]
    /\ pc' = "report_bin"
    /\ UNCHANGED <<pred, gold, code_id_dict, counts, rep, micro,
                   rep_bin, micro_bin, macro_bin>>
    /\ UNCHANGED <<setupVars, projectVars>>

ReportBin ==
    /\ pc = "report_bin"
    /\ rep_bin' = report_bin(pred, gold)
    /\ pc' = "report_micro_bin"
    /\ UNCHANGED <<pred, gold, code_id_dict, counts, rep, micro, macro,
                   micro_bin, macro_bin>>
    /\ UNCHANGED <<setupVars, projectVars>>

ReportMicroBin ==
    /\ pc = "report_micro_bin"
    /\ micro_bin' = report_micro_bin(pred, gold)
    /\ pc' = "report_macro_bin"
    /\ UNCHANGED <<pred, gold, code_id_dict, counts, rep, micro, macro,
                   rep_bin, macro_bin>>
    /\ UNCHANGED <<setupVars, projectVars>>

ReportMacroBin ==
    /\ pc = "report_macro_bin"
    /\ macro_bin' = report_macro_bin(pred, gold)
    /\ pc' = "done"
    /\ UNCHANGED <<pred, gold, code_id_dict, counts, rep, micro, macro,
                   rep_bin, micro_bin>>
    /\ UNCHANGED <<setupVars, projectVars>>

NextEval ==
    \/ Counts \/ Report \/ ReportMicro \/ ReportMacro
    \/ ReportBin \/ ReportMicroBin \/ ReportMacroBin

----------------------------------------------------------------------------
(* Specifications *)

SpecSetup == InitSetup /\ [][NextSetup]_vars

SpecProject == InitProject /\ [][NextProject]_vars

SpecEval == InitEval /\ [][NextEval]_vars

----------------------------------------------------------------------------
(* Claims about setup_matrices_by_layer, checked under SpecSetup *)

\* the leaves and the number of distinct ancestors of the 0-based layer l
Leaves == DOMAIN code_ids
NumAncestors(l) == Cardinality(LayerCodeset(code_ids, translation_dict, l))

\* the cells of row i of matrix m that hold v
CellsOfRow(m, i, v) == {j \in 0 .. (m.shape[2] - 1) : m.data[i][j] = v}

\* C1: with include_duplicates = True every layer built has the shape
\* (number of leaves, number of distinct ancestors of the layer) and in every
\* leaf row exactly one entry 1 and 0 elsewhere; a call that returns has built
\* the max_layer layers 0 .. max_layer-1.
C1_RowSumsOne ==
    include_duplicates =>
        /\ pc = "returned" =>
              Len(matrices) = max_layer /\ Len(layer_id_dicts) = max_layer
        /\ \A L \in 1 .. Len(matrices) :
              /\ matrices[L].shape = <<Cardinality(Leaves), NumAncestors(L - 1)>>
              /\ \A i \in 0 .. (Cardinality(Leaves) - 1) :
                    /\ Cardinality(CellsOfRow(matrices[L], i, 1)) = 1
                    /\ CellsOfRow(matrices[L], i, 0) \cup CellsOfRow(matrices[L], i, 1)
                          = 0 .. (matrices[L].shape[2] - 1)

\* a returned call with duplicates kept, two layers, two leaves that share
\* their layer-0 ancestor, one of them being that ancestor itself
C1_Witness ==
    /\ pc = "returned" /\ include_duplicates /\ max_layer = 2
    /\ Cardinality(Leaves) = 2
    /\ matrices[1].shape = <<2, 1>>
    /\ \E c \in Leaves : ParentAt(translation_dict, c, 0) = c

\* C2: the entry of leaf c at layer L, in the column of c's layer-L ancestor,
\* is 1 if include_duplicates or L = max_layer-2; otherwise it is 0 exactly
\* when the layer-L ancestor of that ancestor is c itself, and 1 if not.
C2_EntryValue ==
    \A L \in 1 .. Len(matrices) : \A c \in Leaves :
        LET anc == translation_dict[c].parents[L]
            entry == matrices[L].data[code_ids[c]][layer_id_dicts[L][anc]]
        IN IF include_duplicates \/ L - 1 = max_layer - 2
           THEN entry = 1
           ELSE /\ translation_dict[anc].parents[L] = c => entry = 0
                /\ translation_dict[anc].parents[L] # c => entry = 1

\* duplicates suppressed, a layer other than max_layer-2 built, holding a
\* suppressed entry and a kept one
C2_Witness ==
    /\ ~include_duplicates
    /\ \E L \in 1 .. Len(matrices) :
          /\ L - 1 # max_layer - 2
          /\ \E c, d \in Leaves :
                /\ CellsOfRow(matrices[L], code_ids[c], 1) = {}
                /\ CellsOfRow(matrices[L], code_ids[d], 1) # {}

\* every row of matrix m holds an entry 1
FullyPopulated(m) ==
    \A i \in 0 .. (m.shape[1] - 1) : CellsOfRow(m, i, 1) # {}

\* C3 as stated: whenever max_layer >= 1, the matrix of the final requested
\* layer max_layer-1 has an entry 1 in every leaf row, also with
\* include_duplicates = False.
C3_FinalLayerFullyPopulated ==
    (pc = "returned" /\ max_layer >= 1) => FullyPopulated(matrices[max_layer])

\* C3 amended: the layer exempted from suppression is max_layer-2, the one
\* before the final requested layer: whenever max_layer >= 2 its matrix has
\* an entry 1 in every leaf row, also with include_duplicates = False.
C3_LayerBeforeFinalFullyPopulated ==
    (max_layer >= 2 /\ Len(matrices) >= max_layer - 1)
        => FullyPopulated(matrices[max_layer - 1])

\* duplicates suppressed, two layers returned; a leaf that is its own
\* ancestor in both layers is kept in layer 0 and dropped from the final one
C3_Witness ==
    /\ pc = "returned" /\ ~include_duplicates /\ max_layer = 2
    /\ \E c \in Leaves :
          /\ ParentAt(translation_dict, c, 0) = c
          /\ ParentAt(translation_dict, c, 1) = c
          /\ CellsOfRow(matrices[1], code_ids[c], 1) # {}
          /\ CellsOfRow(matrices[2], code_ids[c], 1) = {}

\* C4 as stated: the id dictionary of a layer maps index to code: its keys
\* are the indices 0 .. M-1, its values the distinct ancestors of the layer,
\* and dictionary[j] is the ancestor that column j of the matrix stands for.
C4_IndexToCode ==
    \A L \in 1 .. Len(layer_id_dicts) :
        /\ DOMAIN layer_id_dicts[L] = 0 .. (NumAncestors(L - 1) - 1)
        /\ {layer_id_dicts[L][j] : j \in DOMAIN layer_id_dicts[L]}
              = LayerCodeset(code_ids, translation_dict, L - 1)
        /\ \A c \in Leaves : \A j \in CellsOfRow(matrices[L], code_ids[c], 1) :
              layer_id_dicts[L][j] = ParentAt(translation_dict, c, L - 1)

----------------------------------------------------------------------------
(* Claims about hierarchical_eval_setup, checked under SpecProject *)

\* the sum of row i of matrix m
RowSum(m, i) == SumOver(m.data[i], 0 .. (m.shape[2] - 1))

\* the first column, in a combined matrix, of the projection onto the i-th
\* layer matrix (i = 1 for layer 0): the leaves, then the layers before it
SegmentStart(lms, i) ==
    lms[1].shape[1] + SumOver([k \in 1 .. (i - 1) |-> lms[k].shape[2]], 1 .. (i - 1))

\* what the claim says of one side: its rows kept, the leaf segment filtered by
\* the diagonal of the layer-0 row sums, then the projections in layer order
SideAsClaimed(x, out) ==
    /\ out.shape = <<x.shape[1], SegmentStart(layer_matrices, max_onto_layers + 1)>>
    /\ \A d \in 0 .. (x.shape[1] - 1) :
          /\ \A c \in 0 .. (x.shape[2] - 1) :
                out.data[d][c] = x.data[d][c] * RowSum(layer_matrices[1], c)
          /\ \A i \in 1 .. max_onto_layers :
                \A j \in 0 .. (layer_matrices[i].shape[2] - 1) :
                   out.data[d][SegmentStart(layer_matrices, i) + j] =
                      SumOver([c \in 0 .. (x.shape[2] - 1) |->
                                  x.data[d][c] * layer_matrices[i].data[c][j]],
                              0 .. (x.shape[2] - 1))

\* C5 as stated: each combined matrix keeps the rows of its input; its
\* columns are the diagonal-filtered leaf segment (leaf c scaled by the sum of
\* row c of layer_matrices[0]) followed by the projections onto layers
\* 0 .. n-1 in order, column j of a projection being the sum over the leaves
\* of count times transition entry.
C5_CombinedMatrices ==
    pc = "returned" =>
        /\ SideAsClaimed(preds, combined.preds)
        /\ SideAsClaimed(golds, combined.golds)

----------------------------------------------------------------------------
(* Claims about multi_level_eval, checked under SpecEval *)

Docs == 0 .. (pred.shape[1] - 1)
Classes == 0 .. (pred.shape[2] - 1)
Cells == Docs \X Classes

IsBinary(m) == \A c \in Cells : m.data[c[1]][c[2]] \in {0, 1}

\* the cells, and those of class j, where pred holds a and gold holds b
CellsWith(a, b) ==
    {c \in Cells : pred.data[c[1]][c[2]] = a /\ gold.data[c[1]][c[2]] = b}
DocsWith(j, a, b) == {i \in Docs : pred.data[i][j] = a /\ gold.data[i][j] = b}

\* C6: on 0/1 matrices the three counts are the binary ones, per class and
\* over all axes: TP counts the cells with pred = 1 and gold = 1, FP those
\* with pred = 1 and gold = 0, FN those with pred = 0 and gold = 1; so with
\* pred = gold, TP is the number of 1-entries and FP = FN = 0.
C6_BinaryCounts ==
    (counts.raised = "none" /\ IsBinary(pred) /\ IsBinary(gold)) =>
        /\ \A j \in Classes :
              /\ counts.tp[j] = Cardinality(DocsWith(j, 1, 1))
              /\ counts.fp[j] = Cardinality(DocsWith(j, 1, 0))
              /\ counts.fn[j] = Cardinality(DocsWith(j, 0, 1))
        /\ counts.tp_full = Cardinality(CellsWith(1, 1))
        /\ counts.fp_full = Cardinality(CellsWith(1, 0))
        /\ counts.fn_full = Cardinality(CellsWith(0, 1))
        /\ pred = gold =>
              /\ counts.tp_full = Cardinality({c \in Cells : pred.data[c[1]][c[2]] = 1})
              /\ counts.fp_full = 0
              /\ counts.fn_full = 0

\* 0/1 matrices counted, a class holding a TP, an FP and an FN at once
C6_Witness ==
    /\ counts.raised = "none" /\ IsBinary(pred) /\ IsBinary(gold)
    /\ \E j \in Classes : counts.tp[j] > 0 /\ counts.fp[j] > 0 /\ counts.fn[j] > 0

\* a ratio num/den of the reports: defined, and 0 when its denominator is 0
Guarded(ratio, denomIsZero) ==
    /\ IsFinite(ratio)
    /\ denomIsZero => IsZero(ratio)

\* the three ratios of one record, given its TP, FP and FN
GuardedRecord(r, tp, fp, fn) ==
    /\ Guarded(r.Precision, tp + fp = 0)
    /\ Guarded(r.Recall, tp + fn = 0)
    /\ Guarded(r.F1, IsZero(FAdd(r.Precision, r.Recall)))

\* C7: in report, report_micro and report_macro a denominator that is 0 is
\* replaced by 1 and the ratio is 0: no precision, recall or F1 is nan or
\* inf; with pred and gold all zero every per-class value is 0.
C7_ZeroDenominators ==
    /\ rep.raised = "none" =>
          /\ \A k \in DOMAIN rep.value :
                GuardedRecord(rep.value[k], counts.tp[k - 1], counts.fp[k - 1],
                              counts.fn[k - 1])
          /\ (CellsWith(0, 0) = Cells) =>
                \A k \in DOMAIN rep.value :
                   /\ IsZero(rep.value[k].Precision)
                   /\ IsZero(rep.value[k].Recall)
                   /\ IsZero(rep.value[k].F1)
    /\ micro.raised = "none" =>
          GuardedRecord(micro.value, counts.tp_full, counts.fp_full, counts.fn_full)
    /\ macro.raised = "none" =>
          /\ IsFinite(macro.value.Precision)
          /\ IsFinite(macro.value.Recall)
          /\ Guarded(macro.value.F1,
                     IsZero(FAdd(macro.value.Precision, macro.value.Recall)))

\* all reports made; a class never predicted but present in gold (precision
\* 0/0, F1 0/0) beside a class with a true positive
C7_Witness ==
    /\ pc = "done"
    /\ \E j, k \in Classes :
          /\ counts.tp[j] + counts.fp[j] = 0 /\ counts.fn[j] > 0
          /\ counts.tp[k] > 0

\* every positive entry 1, every other entry 0
Clipped(m) ==
    [shape |-> m.shape,
     data  |-> [i \in Docs |-> [j \in Classes |-> Min(1, Max(0, m.data[i][j]))]]]

\* C8 as stated: on count matrices with an entry above 1, report_bin returns
\* what report returns on the clipped matrices, and report_micro_bin and
\* report_macro_bin what report_micro and report_macro return on them.
C8_BinEqualsClipped ==
    (pc = "done" /\ \E c \in Cells : pred.data[c[1]][c[2]] > 1 \/ gold.data[c[1]][c[2]] > 1) =>
        /\ rep_bin.raised = "none"
        /\ rep_bin.value = report(Clipped(pred), Clipped(gold), code_id_dict)
        /\ micro_bin.raised = "none"
        /\ micro_bin.value = report_micro(Clipped(pred), Clipped(gold))
        /\ macro_bin.raised = "none"
        /\ macro_bin.value = report_macro(Clipped(pred), Clipped(gold))

\* the per-class values of a column of the per-class report
PerClass(field) == [k \in DOMAIN rep.value |-> rep.value[k][field]]
NumClasses == FromInt(Cardinality(Classes))

\* C9: report_macro's Precision and Recall are the unweighted means over the
\* classes of report's per-class precision and recall, and its F1 is
\* 2*P*R/(P+R) of those two means (0 when P+R = 0).
C9_MacroF1 ==
    (macro.raised = "none") =>
        /\ FMul(macro.value.Precision, NumClasses)
              = FSum(PerClass("Precision"), DOMAIN rep.value)
        /\ FMul(macro.value.Recall, NumClasses)
              = FSum(PerClass("Recall"), DOMAIN rep.value)
        /\ IF IsZero(FAdd(macro.value.Precision, macro.value.Recall))
           THEN IsZero(macro.value.F1)
           ELSE FMul(macro.value.F1, FAdd(macro.value.Precision, macro.value.Recall))
                   = FMul(FromInt(2), FMul(macro.value.Precision, macro.value.Recall))

\* an input on which the macro F1 is not the mean of the per-class F1 scores
C9_Witness ==
    /\ macro.raised = "none"
    /\ FMul(macro.value.F1, NumClasses) # FSum(PerClass("F1"), DOMAIN rep.value)

\* the sum of column j, and of all cells, of matrix m
ColumnSum(m, j) == SumOver([i \in Docs |-> m.data[i][j]], Docs)
Total(m) == SumOver([j \in Classes |-> ColumnSum(m, j)], Classes)

\* C10: per class TP + FP is the column sum of pred and TP + FN the column
\* sum of gold, so the Support of report is TP + FN; over all axes TP + FP is
\* the total of pred and TP + FN the total of gold.
C10_CountsAddUp ==
    /\ counts.raised = "none" =>
          /\ \A j \in Classes :
                /\ counts.tp[j] + counts.fp[j] = ColumnSum(pred, j)
                /\ counts.tp[j] + counts.fn[j] = ColumnSum(gold, j)
          /\ counts.tp_full + counts.fp_full = Total(pred)
          /\ counts.tp_full + counts.fn_full = Total(gold)
    /\ rep.raised = "none" =>
          \A k \in DOMAIN rep.value :
             rep.value[k].Support = counts.tp[k - 1] + counts.fn[k - 1]

\* a report on counts above 1 where pred exceeds gold in one document of a
\* class and gold exceeds pred in another
C10_Witness ==
    /\ rep.raised = "none"
    /\ \E j \in Classes : \E i, k \in Docs :
          /\ pred.data[i][j] > gold.data[i][j] /\ gold.data[i][j] > 0
          /\ pred.data[k][j] < gold.data[k][j]
          /\ counts.fp[j] > 0 /\ counts.fn[j] > 0 /\ counts.tp[j] > 1

============================================================================
